---- MODULE Spec2Model ----
(***************************************************************************)
(* Workforce projection kernel of the community-pharmacy repository:       *)
(*   input_data.calculate_annual_growth_rates, input_data.create_scenarios,*)
(*   project_workforce._project_scenarios, project_workforce_supply and    *)
(*   project_pharmacy_ops.                                                 *)
(*                                                                         *)
(* Number representation.  Python floats are modelled by exact decimals:   *)
(*   - levels (totals, changes, baselines) are integers counting 10^-6;    *)
(*     a value rounded to 5 decimals is a multiple of 10;                  *)
(*   - growth rates in percent are integers counting 0.01 %;               *)
(*   - scenario multipliers are integers counting tenths;                  *)
(*   - annual_change_estimate is an integer counting tenths.               *)
(* round(x, n) is Python's round-half-to-even on the decimal value.        *)
(***************************************************************************)
EXTENDS Integers, Sequences, FiniteSets, TLC

VARIABLES
    pc,                  \* position of the run
    total_df,            \* snapshot table given to calculate_annual_growth_rates
    growth_rates,        \* dict returned by calculate_annual_growth_rates
    warnings,            \* diagnostics printed so far
    error,               \* exception that ended the run ("none" when none)
    baseline,            \* baseline supply per profession
    duration,            \* number of projected years
    scenarios,           \* dict returned by the last create_scenarios call
    supply_projections,  \* dict returned by project_workforce_supply
    baseline_ops_fte,    \* baseline operations FTE
    ops_projections,     \* dict returned by project_pharmacy_ops
    args,                \* arguments of the last direct call of a helper
    projections,         \* dict returned by the last direct _project_scenarios call
    ops_duration,        \* number of years project_pharmacy_ops was given
    gap_df,              \* gap table returned by format_projections
    scenario,            \* scenario name main was called with ("none" before)
    scenario_df,         \* rows of the gap table main returns
    server_records,      \* records of the dataset the API serves
    all_records,         \* records fetch_all_pharmacy_data has collected
    offset,              \* offset of the next request
    request,             \* request in flight
    response,            \* response in flight
    total_hours          \* value returned by parse_time_string, in minutes

\* the state of the data extraction (src/data/nhsbsa-pharmacy-england-hrs.py)
dataVars == <<server_records, all_records, offset, request, response, total_hours>>

\* the state of the projection run
runVars == <<total_df, growth_rates, warnings, baseline, duration, scenarios,
             supply_projections, baseline_ops_fte, ops_projections, projections,
             ops_duration, gap_df, scenario, scenario_df>>

vars == <<pc, total_df, growth_rates, warnings, error, baseline, duration,
          scenarios, supply_projections, baseline_ops_fte, ops_projections,
          args, projections, ops_duration, gap_df, scenario,
                   scenario_df, dataVars>>

----------------------------------------------------------------------------
(* Configuration (src/src/config.py)                                       *)

BASELINE_YEAR == 2025

START_PROJECTION_YEAR == 2025

\* 0.1 % a year, counted in 0.01 %
OPS_GROWTH_RATE_PCT == 10

----------------------------------------------------------------------------
(* Bounds of the model                                                     *)

MaxDuration == 3

Professions == {"Pharmacist", "Pharmacy Technician"}

\* load_registrants_data sorts the table by profession, so unique() yields
\* the professions in this order
ProfOrder == <<"Pharmacist", "Pharmacy Technician">>

Years == {2018, 2025, 2026}

Headcounts == {0, 100, 200, 9999, 10000}

\* value of a Python argument that is None
NoneValue == [none |-> TRUE]

----------------------------------------------------------------------------
(* Exact arithmetic helpers                                                *)

Abs(x) == IF x < 0 THEN -x ELSE x

Sign(x) == IF x < 0 THEN -1 ELSE IF x > 0 THEN 1 ELSE 0

SetMax(S) == CHOOSE x \in S : \A y \in S : y <= x

SetMin(S) == CHOOSE x \in S : \A y \in S : x <= y

\* round half to even of num / den, for num >= 0 and den > 0
RoundHalfEvenNat(num, den) ==
    LET q == num \div den
        r == num % den
    IN  IF 2 * r > den THEN q + 1
        ELSE IF 2 * r < den THEN q
        ELSE IF q % 2 = 0 THEN q ELSE q + 1

\* round half to even of num / den for any sign of num (den > 0)
RoundHalfEven(num, den) == Sign(num) * RoundHalfEvenNat(Abs(num), den)

(* Natural numbers of any size, as little-endian sequences of limbs in     *)
(* base 1000 (<<>> is zero); used to compare powers exactly.               *)
LimbBase == 1000

RECURSIVE BigMulSmallCarry(_, _, _)
BigMulSmallCarry(a, k, carry) ==
    IF a = <<>>
    THEN IF carry = 0 THEN <<>>
         ELSE <<carry % LimbBase>> \o BigMulSmallCarry(<<>>, k, carry \div LimbBase)
    ELSE LET v == Head(a) * k + carry
         IN  <<v % LimbBase>> \o BigMulSmallCarry(Tail(a), k, v \div LimbBase)

\* a * k for a big natural a and an integer 0 <= k <= 2000001
BigMulSmall(a, k) == IF k = 0 THEN <<>> ELSE BigMulSmallCarry(a, k, 0)

BigFromNat(n) == BigMulSmall(<<1>>, n)

RECURSIVE BigPowTimes(_, _, _)
\* c * k^n
BigPowTimes(c, k, n) == IF n = 0 THEN c ELSE BigPowTimes(BigMulSmall(c, k), k, n - 1)

RECURSIVE BigCmpFrom(_, _, _)
BigCmpFrom(a, b, i) ==
    IF i = 0 THEN 0
    ELSE IF a[i] > b[i] THEN 1
    ELSE IF a[i] < b[i] THEN -1
    ELSE BigCmpFrom(a, b, i - 1)

\* -1, 0 or 1 as a < b, a = b, a > b (both without leading zero limbs)
BigCmp(a, b) ==
    IF Len(a) > Len(b) THEN 1
    ELSE IF Len(a) < Len(b) THEN -1
    ELSE BigCmpFrom(a, b, Len(a))

----------------------------------------------------------------------------
(* calculate_annual_growth_rates                                           *)

\* sign of  (num/den)^n * e  -  b : decides on which side of (b/e)^(1/n)
\* the fraction num/den lies
PowCmp(num, den, n, e, b) ==
    BigCmp(BigPowTimes(BigFromNat(e), num, n), BigPowTimes(BigFromNat(b), den, n))

\* upper end of the search for 10000 * growth_factor^(1/n)
MaxScaledRoot == 1000000

RECURSIVE LeastAbove(_, _, _, _, _)
\* least m in lo..hi with  m + 1/2 > 10000 * (b/e)^(1/n)
LeastAbove(lo, hi, n, e, b) ==
    IF lo = hi THEN lo
    ELSE LET mid == (lo + hi) \div 2
         IN  IF PowCmp(2 * mid + 1, 20000, n, e, b) > 0
             THEN LeastAbove(lo, mid, n, e, b)
             ELSE LeastAbove(mid + 1, hi, n, e, b)

\* round(((b / e) ** (1 / n) - 1) * 100, 2), counted in 0.01 %
RoundedCAGR(b, e, n) ==
    LET m == LeastAbove(0, MaxScaledRoot, n, e, b)
        tie == m > 0 /\ PowCmp(2 * m - 1, 20000, n, e, b) = 0
    IN  (IF tie /\ m % 2 = 1 THEN m - 1 ELSE m) - 10000

\* the linear average (b - e) / e / n * 100 rounded to 2 decimals
LinearAverageRatePct(baseline_total, earliest_total, years_elapsed) ==
    RoundHalfEven(10000 * (baseline_total - earliest_total),
                  earliest_total * years_elapsed)

AnnualGrowthRatePct(baseline_total, earliest_total, years_elapsed) ==
    RoundedCAGR(baseline_total, earliest_total, years_elapsed)

\* round(change_period / years_elapsed, 1), counted in tenths
AnnualChangeEstimate(change_period, years_elapsed) ==
    RoundHalfEven(10 * change_period, years_elapsed)

\* the snapshot table is a map profession -> (year -> registrants); the years
\* of a profession's rows are the domain of its series
AvailableYears(df, profession) == DOMAIN df[profession]

\* as BaselineYearUsed, but falling back to the earliest year
BaselineYearOrEarliest(df, profession) ==
    IF BASELINE_YEAR \in AvailableYears(df, profession)
    THEN BASELINE_YEAR
    ELSE SetMin(AvailableYears(df, profession))

BaselineYearUsed(df, profession) ==
    IF BASELINE_YEAR \in AvailableYears(df, profession)
    THEN BASELINE_YEAR
    ELSE SetMax(AvailableYears(df, profession))

EarliestYear(df, profession) == SetMin(AvailableYears(df, profession))

Warning(kind, profession) == [kind |-> kind, profession |-> profession]

\* as YearsElapsed, but counted from the configured year whatever year is used
YearsElapsedFromConfig(baseline_year, earliest_year) == BASELINE_YEAR - earliest_year

YearsElapsed(baseline_year, earliest_year) == baseline_year - earliest_year

GrowthRecord(baseline_total, earliest_total, years_elapsed) ==
    [annual_growth_rate_pct |->
         AnnualGrowthRatePct(baseline_total, earliest_total, years_elapsed),
     annual_change_estimate |->
         AnnualChangeEstimate(baseline_total - earliest_total, years_elapsed),
     change_period |-> baseline_total - earliest_total,
     years_elapsed |-> years_elapsed]

\* as InsufficientOutcome, but the condition ends the whole call
InsufficientOutcomeFatal(acc, profession) ==
    [acc EXCEPT !.warnings = @ \cup {Warning("InsufficientData", profession)},
                !.error = "InsufficientData"]

\* fewer than two distinct years: warn and continue with the next profession
InsufficientOutcome(acc, profession) ==
    [acc EXCEPT !.warnings = @ \cup {Warning("InsufficientData", profession)}]

\* as ZeroDivisionOutcome, but the profession is skipped with a warning
ZeroDivisionSkipped(acc, profession) ==
    [acc EXCEPT !.warnings = @ \cup {Warning("ZeroEarliestTotal", profession)}]

\* baseline_total / earliest_total with earliest_total = 0: the exception
\* leaves the loop and the function
ZeroDivisionOutcome(acc, profession) == [acc EXCEPT !.error = "ZeroDivisionError"]

\* one iteration of the loop over the professions; acc is the function's
\* local state: the dict built so far, the diagnostics printed, the exception
GrowthStep(df, acc, profession) ==
    IF acc.error # "none" \/ AvailableYears(df, profession) = {} THEN acc
    ELSE IF Cardinality(AvailableYears(df, profession)) < 2
    THEN InsufficientOutcome(acc, profession)
    ELSE
      LET baseline_year == BaselineYearUsed(df, profession)
          earliest_year == EarliestYear(df, profession)
          fallback == IF BASELINE_YEAR \in AvailableYears(df, profession) THEN {}
                      ELSE {Warning("BaselineYearNotFound", profession)}
          baseline_total == df[profession][baseline_year]
          earliest_total == df[profession][earliest_year]
      IN  IF earliest_year = baseline_year
          THEN [acc EXCEPT !.warnings = @ \cup fallback
                                          \cup {Warning("OnlyOneYear", profession)}]
          ELSE IF earliest_total = 0
          THEN [ZeroDivisionOutcome(acc, profession) EXCEPT !.warnings = @ \cup fallback]
          ELSE [acc EXCEPT !.warnings = @ \cup fallback,
                           !.data = [p \in DOMAIN acc.data \cup {profession} |->
                                       IF p = profession
                                       THEN GrowthRecord(baseline_total, earliest_total,
                                                YearsElapsed(baseline_year, earliest_year))
                                       ELSE acc.data[p]]]

RECURSIVE GrowthLoop(_, _, _)
GrowthLoop(df, acc, i) ==
    IF i > Len(ProfOrder) THEN acc
    ELSE GrowthLoop(df, GrowthStep(df, acc, ProfOrder[i]), i + 1)

EmptyMap == [p \in {} |-> 0]

calculate_annual_growth_rates(df) ==
    GrowthLoop(df, [data |-> EmptyMap, warnings |-> {}, error |-> "none"], 1)

----------------------------------------------------------------------------
(* create_scenarios                                                        *)

ScenarioNames == {"baseline", "optimistic", "pessimistic"}

DefaultScenarios ==
    [s \in ScenarioNames |->
        IF s = "baseline" THEN 10 ELSE IF s = "optimistic" THEN 12 ELSE 8]

\* as create_scenarios, but with the multipliers of optimistic and pessimistic
\* exchanged
create_scenarios_swapped(rates_dict) ==
    [s \in ScenarioNames |->
        IF s = "baseline" THEN 10 ELSE IF s = "optimistic" THEN 8 ELSE 12]

\* as create_scenarios, but the spread of a non-empty map grows with its size
create_scenarios_scaled(rates_dict) ==
    IF rates_dict = NoneValue \/ DOMAIN rates_dict = {}
    THEN DefaultScenarios
    ELSE [s \in ScenarioNames |->
            IF s = "baseline" THEN 10
            ELSE IF s = "optimistic" THEN 11 + Cardinality(DOMAIN rates_dict)
            ELSE 9 - Cardinality(DOMAIN rates_dict)]

\* rates_dict is a growth-rate map, the empty map or NoneValue
create_scenarios(rates_dict) ==
    IF rates_dict = NoneValue \/ DOMAIN rates_dict = {}
    THEN DefaultScenarios
    ELSE [s \in ScenarioNames |->
            IF s = "baseline" THEN 10 ELSE IF s = "optimistic" THEN 12 ELSE 8]

----------------------------------------------------------------------------
(* _project_scenarios                                                      *)

\* as ChangeOf, but the product is cut off after 5 decimals instead of rounded
ChangeOfTruncated(total, adjusted) ==
    LET t  == Abs(total)
        a  == Abs(adjusted)
        tl == t % 1000000
        w  == tl * (a \div 1000) + ((tl * (a % 1000)) \div 1000)
    IN  Sign(total) * Sign(adjusted) * ((t \div 1000000) * a + (w \div 1000)) * 10

\* round(total * (adjusted_growth_rate / 100), 5) in units of 10^-6, where
\* adjusted counts 0.001 %.  The exact product total * adjusted is split into
\* parts that stay below 2^31: total = th * 10^6 + tl, adjusted = ah * 10^3 + al.
ChangeOf(total, adjusted) ==
    LET t  == Abs(total)
        a  == Abs(adjusted)
        th == t \div 1000000
        tl == t % 1000000
        ah == a \div 1000
        al == a % 1000
        z  == tl * al
        w  == tl * ah + (z \div 1000)
        q  == th * a + (w \div 1000)
        r  == (w % 1000) * 1000 + (z % 1000)
        rounded == IF 2 * r > 1000000 THEN q + 1
                   ELSE IF 2 * r < 1000000 THEN q
                   ELSE IF q % 2 = 0 THEN q ELSE q + 1
    IN  Sign(total) * Sign(adjusted) * rounded * 10

\* round(x, 5) of a level counted in 10^-6
\* as Round5, but to 4 decimals
Round4(x) == RoundHalfEven(x, 100) * 100

Round5(x) == RoundHalfEven(x, 10) * 10

\* as Point, but the point is dated one year later
PointNextYear(year, total, change, scenario_name) ==
    [year |-> year + 1, total |-> total, change |-> change, scenario |-> scenario_name]

Point(year, total, change, scenario_name) ==
    [year |-> year, total |-> total, change |-> change, scenario |-> scenario_name]

\* as AnchorPoint, but the baseline value is rounded like the later totals
AnchorPointRounded(current_total, scenario_name) ==
    Point(START_PROJECTION_YEAR + 0, RoundHalfEven(current_total, 10) * 10, 0,
          scenario_name)

\* the point appended for year = 0
AnchorPoint(current_total, scenario_name) ==
    Point(START_PROJECTION_YEAR + 0, current_total, 0, scenario_name)

RECURSIVE ProjectionLoop(_, _, _, _, _, _)
\* the iterations year..duration of the inner loop, appended to projection
ProjectionLoop(projection, current_total, adjusted, scenario_name, year, dur) ==
    IF year > dur THEN projection
    ELSE IF year = 0
    THEN ProjectionLoop(Append(projection, AnchorPoint(current_total, scenario_name)),
                        current_total, adjusted, scenario_name, year + 1, dur)
    ELSE LET change == ChangeOf(current_total, adjusted)
             new_total == Round5(current_total + change)
         IN  ProjectionLoop(
                 Append(projection,
                        Point(START_PROJECTION_YEAR + year, new_total, change, scenario_name)),
                 new_total, adjusted, scenario_name, year + 1, dur)

\* as AdjustedGrowthRate, but every scenario compounds the base rate itself
AdjustedGrowthRateUnscaled(growth_rate_pct, adjustment) == growth_rate_pct * 10

\* growth_rate_pct * adjustment, counted in 0.001 %
AdjustedGrowthRate(growth_rate_pct, adjustment) == growth_rate_pct * adjustment

_project_scenarios(baseline_value, growth_rate_pct, scens, dur) ==
    [s \in DOMAIN scens |->
        ProjectionLoop(<<>>, baseline_value,
                       AdjustedGrowthRate(growth_rate_pct, scens[s]), s, 0, dur)]

----------------------------------------------------------------------------
(* project_workforce_supply, project_pharmacy_ops                          *)

\* as SupplyRate, but the average yearly change of the record is taken as rate
SupplyRateFromChange(rates, profession) == rates[profession].annual_change_estimate

\* the growth rate handed to _project_scenarios for a profession
SupplyRate(rates, profession) == rates[profession].annual_growth_rate_pct

\* as project_workforce_supply, but a profession without baseline ends the
\* projection of every profession
project_workforce_supply_all_or_nothing(base, rates, dur) ==
    IF DOMAIN rates \subseteq DOMAIN base
    THEN [p \in DOMAIN rates |->
            _project_scenarios(base[p], SupplyRate(rates, p), create_scenarios(rates), dur)]
    ELSE EmptyMap

project_workforce_supply(base, rates, dur) ==
    [p \in DOMAIN rates \cap DOMAIN base |->
        _project_scenarios(base[p], SupplyRate(rates, p), create_scenarios(rates), dur)]

\* professions skipped with "No baseline data"
SupplyWarnings(base, rates) ==
    {Warning("NoBaseline", p) : p \in DOMAIN rates \ DOMAIN base}

\* as project_pharmacy_ops, but at the growth rate of the pharmacists when
\* there is one
project_pharmacy_ops_at_supply_rate(ops_fte, dur) ==
    _project_scenarios(ops_fte,
                       IF "Pharmacist" \in DOMAIN growth_rates
                       THEN SupplyRate(growth_rates, "Pharmacist")
                       ELSE OPS_GROWTH_RATE_PCT,
                       create_scenarios(EmptyMap), dur)

project_pharmacy_ops(ops_fte, dur) ==
    _project_scenarios(ops_fte, OPS_GROWTH_RATE_PCT, create_scenarios(EmptyMap), dur)

----------------------------------------------------------------------------
(* format_projections                                                      *)

\* the order in which the scenario dicts are written, which is also the
\* ascending order of the scenario names as strings
ScenarioOrder == <<"baseline", "optimistic", "pessimistic">>

ScenarioRank(s) == CHOOSE i \in 1..Len(ScenarioOrder) : ScenarioOrder[i] = s

\* calendar year Y as financial year "Y/(Y+1 mod 100)", e.g. 2025 -> "2025/26"
calendar_to_financial_year(year) == <<year, (year + 1) % 100>>

\* int(round(x)) of a value counted in 10^-6
IntRound(x) == RoundHalfEven(x, 1000000)

RECURSIVE Flatten(_)
\* the rows of a sequence of tables, one table after the other
Flatten(tables) ==
    IF tables = <<>> THEN <<>> ELSE Head(tables) \o Flatten(Tail(tables))

\* the keys of a dict in the order of order
KeysInOrder(dict, order) == SelectSeq(order, LAMBDA k : k \in DOMAIN dict)

OpsRow(point, scenario_name) ==
    [year |-> point.year,
     total_ops_fte |-> IntRound(point.total),
     annual_change |-> IntRound(point.change),
     scenario |-> scenario_name,
     financial_year |-> calendar_to_financial_year(point.year)]

SupplyRow(point, scenario_name, profession) ==
    [profession |-> profession,
     year |-> point.year,
     total_registrants |-> IntRound(point.total),
     annual_change |-> IntRound(point.change),
     scenario |-> scenario_name,
     financial_year |-> calendar_to_financial_year(point.year)]

\* formatted['ops'] of a dict {scenario: [data]}
FormatOps(projs) ==
    LET names == KeysInOrder(projs, ScenarioOrder)
    IN  Flatten([i \in 1..Len(names) |->
                    [k \in 1..Len(projs[names[i]]) |->
                        OpsRow(projs[names[i]][k], names[i])]])

\* formatted[profession] of a dict {profession: {scenario: [data]}}
FormatSupply(projs, profession) ==
    LET names == KeysInOrder(projs[profession], ScenarioOrder)
    IN  Flatten([i \in 1..Len(names) |->
                    [k \in 1..Len(projs[profession][names[i]]) |->
                        SupplyRow(projs[profession][names[i]][k], names[i], profession)]])

\* the columns the tables are grouped and merged on
KeyOf(row) == <<row.year, row.financial_year, row.scenario,
                   scenario_df, dataVars>>

\* the rows of every profession, without the profession column
SupplyRows(projs) ==
    LET profs == KeysInOrder(projs, ProfOrder)
    IN  Flatten([i \in 1..Len(profs) |->
                    [k \in 1..Len(FormatSupply(projs, profs[i])) |->
                        [year |-> FormatSupply(projs, profs[i])[k].year,
                         financial_year |-> FormatSupply(projs, profs[i])[k].financial_year,
                         scenario |-> FormatSupply(projs, profs[i])[k].scenario,
                         total_registrants |->
                             FormatSupply(projs, profs[i])[k].total_registrants]]])

\* the position of a row under sort_values(by)
SortKey(row, by) ==
    IF by = "scenario_year" THEN ScenarioRank(row.scenario) * 10000 + row.year
    ELSE row.year * 10 + ScenarioRank(row.scenario)

RECURSIVE InsertRow(_, _, _)
\* row put into a sorted table, after the rows that do not come later
InsertRow(sorted, row, by) ==
    IF sorted = <<>> THEN <<row>>
    ELSE IF SortKey(Head(sorted), by) <= SortKey(row, by)
    THEN <<Head(sorted)>> \o InsertRow(Tail(sorted), row, by)
    ELSE <<row>> \o sorted

RECURSIVE sort_values(_, _)
sort_values(rows, by) ==
    IF rows = <<>> THEN <<>>
    ELSE InsertRow(sort_values(SubSeq(rows, 1, Len(rows) - 1), by), rows[Len(rows)], by)

RECURSIVE SumOfKey(_, _)
\* the sum of total_registrants over the rows of a key
SumOfKey(rows, key) ==
    IF rows = <<>> THEN 0
    ELSE (IF KeyOf(Head(rows)) = key THEN Head(rows).total_registrants ELSE 0)
         + SumOfKey(Tail(rows), key)

\* as GroupTotal, but a group keeps the value of its first row
GroupFirst(rows, key) ==
    LET first == SelectSeq(rows, LAMBDA r : KeyOf(r) = key)
    IN  first[1].total_registrants

\* ['total_registrants'].sum() of the group of a key
GroupTotal(rows, key) == SumOfKey(rows, key)

RECURSIVE GroupRows(_, _, _)
\* one row per key of rows that is not in seen, in order of first occurrence
GroupRows(rows, all, seen) ==
    IF rows = <<>> THEN <<>>
    ELSE IF KeyOf(Head(rows)) \in seen THEN GroupRows(Tail(rows), all, seen)
    ELSE <<[year |-> Head(rows).year,
            financial_year |-> Head(rows).financial_year,
            scenario |-> Head(rows).scenario,
            supply |-> GroupTotal(all, KeyOf(Head(rows)))]>>
         \o GroupRows(Tail(rows), all, seen \cup {KeyOf(Head(rows))})

\* groupby(['year', 'financial_year', 'scenario']).sum().reset_index()
supply_total(rows) == sort_values(GroupRows(rows, rows, {}), "year_scenario")

\* ops_df[['year', 'financial_year', 'scenario', 'total_ops_fte']] renamed
ops_prepared(ops_df) ==
    [i \in 1..Len(ops_df) |->
        [year |-> ops_df[i].year, financial_year |-> ops_df[i].financial_year,
         scenario |-> ops_df[i].scenario, ops |-> ops_df[i].total_ops_fte]]

MergedRow(l, r) ==
    [year |-> l.year, financial_year |-> l.financial_year, scenario |-> l.scenario,
     supply |-> l.supply, ops |-> r.ops]

\* as MergeMatch, but the rows are matched on the year alone
MergeMatchOnYear(l, r) == r.year = l.year

\* on=['year', 'financial_year', 'scenario']
MergeMatch(l, r) == KeyOf(r) = KeyOf(l)

RECURSIVE merge(_, _)
\* left.merge(right, on=['year', 'financial_year', 'scenario'], how='inner')
merge(left, right) ==
    IF left = <<>> THEN <<>>
    ELSE LET m == SelectSeq(right, LAMBDA r : MergeMatch(Head(left), r))
         IN  [i \in 1..Len(m) |-> MergedRow(Head(left), m[i])]
             \o merge(Tail(left), right)

\* as GapOf, but ops - supply
GapOfReversed(supply, ops) == ops - supply

\* gap_df['supply'] - gap_df['ops'] of one row
GapOf(supply, ops) == supply - ops

WithGap(rows) ==
    [i \in 1..Len(rows) |->
        [year |-> rows[i].year, financial_year |-> rows[i].financial_year,
         scenario |-> rows[i].scenario, supply |-> rows[i].supply,
         ops |-> rows[i].ops, gap |-> GapOf(rows[i].supply, rows[i].ops)]]

\* as SortGapRows, but sorted by year and then scenario
SortGapRowsByYear(rows) == sort_values(rows, "year_scenario")

\* gap_df.sort_values(['scenario', 'year']).reset_index(drop=True)
SortGapRows(rows) == sort_values(rows, "scenario_year")

\* format_projections(projections, ops_projections) for supply projections
\* and the ops projections of project_pharmacy_ops: the gap table, or the
\* error of list(projections.keys())[0] on an empty dict
format_projections(projs, ops_projs) ==
    IF DOMAIN projs = {}
    THEN [error |-> "IndexError", gap_df |-> <<>>]
    ELSE [error |-> "none",
          gap_df |-> SortGapRows(WithGap(merge(supply_total(SupplyRows(projs)),
                                               ops_prepared(FormatOps(ops_projs)))))]

----------------------------------------------------------------------------
(* DataTransformer.parse_time_string (src/data/nhsbsa-pharmacy-england-hrs.py) *)
(* A string is a sequence of characters; hours are counted in minutes.     *)

DigitChars == <<"0", "1", "2", "3", "4", "5", "6", "7", "8", "9">>

IsDigit(c) == \E i \in 1..10 : DigitChars[i] = c

\* int(c) of a digit
DigitValue(c) == (CHOOSE i \in 1..10 : DigitChars[i] = c) - 1

UpperChars == <<"A", "C", "D", "E", "L", "N", "O", "S">>

LowerChars == <<"a", "c", "d", "e", "l", "n", "o", "s">>

\* c.lower(), over the letters of the model
LowerChar(c) ==
    IF \E i \in 1..Len(UpperChars) : UpperChars[i] = c
    THEN LowerChars[CHOOSE i \in 1..Len(UpperChars) : UpperChars[i] = c]
    ELSE c

lower(str) == [i \in 1..Len(str) |-> LowerChar(str[i])]

RECURSIVE lstrip(_)
lstrip(str) ==
    IF str # <<>> /\ Head(str) = " " THEN lstrip(Tail(str)) ELSE str

RECURSIVE rstrip(_)
rstrip(str) ==
    IF str # <<>> /\ str[Len(str)] = " " THEN rstrip(SubSeq(str, 1, Len(str) - 1))
    ELSE str

strip(str) == rstrip(lstrip(str))

RECURSIVE split(_, _)
\* str.split(sep)
split(str, sep) ==
    IF \A i \in 1..Len(str) : str[i] # sep THEN <<str>>
    ELSE LET i == CHOOSE j \in 1..Len(str) :
                      str[j] = sep /\ \A k \in 1..(j - 1) : str[k] # sep
         IN  <<SubSeq(str, 1, i - 1)>> \o split(SubSeq(str, i + 1, Len(str)), sep)

closed_indicators ==
    {<<"c", "l", "o", "s", "e", "d">>, <<"n", "/", "a">>, <<"n", "a">>, <<>>,
     <<"n", "o", "n", "e">>}

\* str has digits at the positions from..to
DigitsAt(str, from, to) == to <= Len(str) /\ \A i \in from..to : IsDigit(str[i])

\* str has the character c at position i
CharAt(str, i, c) == i <= Len(str) /\ str[i] = c

\* the numbers of digits <<a, b>> of the two hour groups with which
\* (\d{1,2}):(\d{2})-(\d{1,2}):(\d{2}) matches a prefix of str
single_range(str) ==
    {ab \in {1, 2} \X {1, 2} :
        /\ DigitsAt(str, 1, ab[1])
        /\ CharAt(str, ab[1] + 1, ":")
        /\ DigitsAt(str, ab[1] + 2, ab[1] + 3)
        /\ CharAt(str, ab[1] + 4, "-")
        /\ DigitsAt(str, ab[1] + 5, ab[1] + 4 + ab[2])
        /\ CharAt(str, ab[1] + 5 + ab[2], ":")
        /\ DigitsAt(str, ab[1] + 6 + ab[2], ab[1] + 7 + ab[2])}

\* int() of the digits of str at from..to
IntAt(str, from, to) ==
    IF from = to THEN DigitValue(str[from])
    ELSE 10 * DigitValue(str[from]) + DigitValue(str[to])

\* end_minutes, with 24 hours added when it is before start_minutes
OvernightEnd(start_minutes, end_minutes) ==
    IF end_minutes < start_minutes THEN end_minutes + 24 * 60 ELSE end_minutes

\* the minutes of a single time range, 0 when the pattern does not match
_parse_single_time_range(time_range) ==
    LET str == strip(time_range)
        m == single_range(str)
    IN  IF m = {} THEN 0
        ELSE LET ab == CHOOSE x \in m : TRUE
                 a == ab[1]
                 b == ab[2]
                 start_minutes == IntAt(str, 1, a) * 60 + IntAt(str, a + 2, a + 3)
                 end_minutes == IntAt(str, a + 5, a + 4 + b) * 60
                                  + IntAt(str, a + 6 + b, a + 7 + b)
             IN  OvernightEnd(start_minutes, end_minutes) - start_minutes

RECURSIVE SumOfRanges(_)
\* total_hours += _parse_single_time_range(time_range.strip()) over the ranges
SumOfRanges(ranges) ==
    IF ranges = <<>> THEN 0
    ELSE _parse_single_time_range(strip(Head(ranges))) + SumOfRanges(Tail(ranges))

\* time_string is [missing |-> TRUE] for None or NaN, a text otherwise
parse_time_string(time_string) ==
    IF time_string.missing THEN 0
    ELSE LET str == strip(time_string.text)
         IN  IF lower(str) \in closed_indicators THEN 0
             ELSE IF \E i \in 1..Len(str) : str[i] = ","
             THEN SumOfRanges(split(str, ","))
             ELSE _parse_single_time_range(str)

----------------------------------------------------------------------------
(* Inputs of the bounded model                                             *)

\* all series over the years of the model with registrants in H
SeriesOver(H) == UNION {[Y -> H] : Y \in SUBSET Years}

TechnicianSeries ==
    { EmptyMap,
      [y \in {2025} |-> 100],
      [y \in {2018, 2025} |-> IF y = 2018 THEN 100 ELSE 200],
      [y \in {2018, 2025} |-> IF y = 2018 THEN 0 ELSE 100],
      [y \in {2018, 2026} |-> IF y = 2018 THEN 200 ELSE 100] }

TablesOver(H) ==
    {[p \in Professions |-> IF p = "Pharmacist" THEN s ELSE t] :
        s \in SeriesOver(H), t \in TechnicianSeries}

AllTables == TablesOver(Headcounts)

PipelineTables == TablesOver({0, 100, 200})

\* baseline supply maps: 100.000004 or 50 pharmacists, 429.073546 technicians
BaselineMaps ==
    {[p \in P |-> IF p = "Pharmacist" THEN v ELSE 429073546] :
        P \in SUBSET Professions, v \in {100000004, 50000000}}

\* 110.343532 and 100 FTE
OpsBaselines == {110343532, 100000000}

\* 0, 1000, 100.000004 and 429.073546
BaseValues == {0, 1000000000, 100000004, 429073546}

\* -100 %, -83.33 %, -9.43 %, 0 %, 0.1 %, 5 %, 10 %, 10.41 %
RateValues == {-10000, -8333, -943, 0, 10, 500, 1000, 1041}

RateRecord(rate) ==
    [annual_growth_rate_pct |-> rate, annual_change_estimate |-> 0,
     change_period |-> 0, years_elapsed |-> 7]

RatesDictInputs ==
    {NoneValue, EmptyMap} \cup
    {[p \in P |-> RateRecord(r)] : P \in (SUBSET Professions) \ {{}}, r \in RateValues}

----------------------------------------------------------------------------
(* The run                                                                 *)

Init ==
    /\ pc = "start"
    /\ total_df = EmptyMap
    /\ growth_rates = EmptyMap
    /\ warnings = {}
    /\ error = "none"
    /\ baseline = EmptyMap
    /\ duration = 0
    /\ scenarios = EmptyMap
    /\ supply_projections = EmptyMap
    /\ baseline_ops_fte = 0
    /\ ops_projections = EmptyMap
    /\ args = EmptyMap
    /\ projections = EmptyMap
    /\ ops_duration = 0
    /\ gap_df = <<>>
    /\ scenario = "none"
    /\ scenario_df = <<>>
    /\ server_records = <<>>
    /\ all_records = <<>>
    /\ offset = 0
    /\ request = NoneValue
    /\ response = NoneValue
    /\ total_hours = 0

\* growth_rates = calculate_annual_growth_rates(total_df), as in main
CalculateAnnualGrowthRatesAt(at, Tables) ==
    /\ pc = at
    /\ \E df \in Tables :
         \E r \in {calculate_annual_growth_rates(df)} :
             /\ total_df' = df
             /\ growth_rates' = IF r.error = "none" THEN r.data ELSE growth_rates
             /\ warnings' = warnings \cup r.warnings
             /\ error' = r.error
             /\ pc' = IF r.error = "none" THEN "rates" ELSE "failed"
    /\ UNCHANGED <<baseline, duration, scenarios, supply_projections,
                   baseline_ops_fte, ops_projections, args, projections,
                   ops_duration, gap_df, scenario,
                   scenario_df, dataVars>>

\* a call of calculate_annual_growth_rates as the first step of a run
CalculateAnnualGrowthRates(Tables) == CalculateAnnualGrowthRatesAt("start", Tables)

CalculateRatesPipeline == CalculateAnnualGrowthRates(PipelineTables)

CalculateRatesAny == CalculateAnnualGrowthRates(AllTables)

\* supply_projections = project_workforce_supply(baseline, growth_rates, duration)
ProjectWorkforceSupply ==
    /\ pc = "rates"
    /\ \E base \in BaselineMaps, dur \in 0..MaxDuration :
         /\ baseline' = base
         /\ duration' = dur
         /\ scenarios' = create_scenarios(growth_rates)
         /\ supply_projections' = project_workforce_supply(base, growth_rates, dur)
         /\ warnings' = warnings \cup SupplyWarnings(base, growth_rates)
    /\ pc' = "supply"
    /\ UNCHANGED <<total_df, growth_rates, error, baseline_ops_fte,
                   ops_projections, args, projections, ops_duration, gap_df, scenario,
                   scenario_df, dataVars>>

\* ops_projections = project_pharmacy_ops(baseline_ops_fte, duration)
ProjectPharmacyOps ==
    /\ pc = "supply"
    /\ \E fte \in OpsBaselines :
         /\ baseline_ops_fte' = fte
         /\ ops_projections' = project_pharmacy_ops(fte, duration)
    /\ ops_duration' = duration
    /\ scenarios' = create_scenarios(EmptyMap)
    /\ pc' = "ops"
    /\ UNCHANGED <<total_df, growth_rates, warnings, error, baseline, duration,
                   supply_projections, args, projections, gap_df, scenario,
                   scenario_df, dataVars>>

\* a call of _project_scenarios on its own
ProjectScenariosCall ==
    /\ pc = "start"
    /\ \E v \in BaseValues, r \in RateValues, dur \in 0..MaxDuration :
         /\ args' = [baseline_value |-> v, growth_rate_pct |-> r, duration |-> dur]
         /\ projections' = _project_scenarios(v, r, create_scenarios(EmptyMap), dur)
    /\ pc' = "projected"
    /\ UNCHANGED <<total_df, growth_rates, warnings, error, baseline, duration,
                   scenarios, supply_projections, baseline_ops_fte, ops_projections,
                   ops_duration, gap_df, scenario,
                   scenario_df, dataVars>>

\* a call of create_scenarios on its own
CreateScenariosCall ==
    /\ pc = "start"
    /\ \E rates_dict \in RatesDictInputs :
         /\ args' = [rates_dict |-> rates_dict]
         /\ scenarios' = create_scenarios(rates_dict)
    /\ pc' = "scenarios"
    /\ UNCHANGED <<total_df, growth_rates, warnings, error, baseline, duration,
                   supply_projections, baseline_ops_fte, ops_projections, projections,
                   ops_duration, gap_df, scenario,
                   scenario_df, dataVars>>

\* the rate dicts handed to a direct call of project_workforce_supply
GapRates ==
    {EmptyMap} \cup
    {[p \in P |-> RateRecord(r)] : P \in (SUBSET Professions) \ {{}}, r \in {-943, 1041}}

\* a call of project_workforce_supply on its own
ProjectWorkforceSupplyCall ==
    /\ pc = "start"
    /\ \E base \in BaselineMaps, rates \in GapRates, dur \in 0..MaxDuration :
         /\ baseline' = base
         /\ growth_rates' = rates
         /\ duration' = dur
         /\ scenarios' = create_scenarios(rates)
         /\ supply_projections' = project_workforce_supply(base, rates, dur)
         /\ warnings' = warnings \cup SupplyWarnings(base, rates)
    /\ pc' = "supply"
    /\ UNCHANGED <<total_df, error, baseline_ops_fte, ops_projections, args,
                   projections, ops_duration, gap_df, scenario, scenario_df, dataVars>>

\* a call of project_pharmacy_ops with a duration of its own
ProjectPharmacyOpsCall ==
    /\ pc = "supply"
    /\ \E fte \in OpsBaselines, dur \in 0..MaxDuration :
         /\ baseline_ops_fte' = fte
         /\ ops_duration' = dur
         /\ ops_projections' = project_pharmacy_ops(fte, dur)
    /\ scenarios' = create_scenarios(EmptyMap)
    /\ pc' = "ops"
    /\ UNCHANGED <<total_df, growth_rates, warnings, error, baseline, duration,
                   supply_projections, args, projections, gap_df, scenario,
                   scenario_df, dataVars>>

\* the points of a dict {scenario: [data]} with total and change as displayed
DisplayedPoints(projs) ==
    [s \in DOMAIN projs |->
        [k \in 1..Len(projs[s]) |->
            [projs[s][k] EXCEPT !.total = IntRound(@) * 1000000,
                                !.change = IntRound(@) * 1000000]]]

\* as FormatProjections, but the displayed integers are written back into the
\* projections
FormatProjectionsInPlace ==
    /\ pc = "ops"
    /\ \E r \in {format_projections(supply_projections, ops_projections)} :
         /\ gap_df' = r.gap_df
         /\ error' = r.error
         /\ pc' = IF r.error = "none" THEN "gap" ELSE "failed"
    /\ supply_projections' =
           [p \in DOMAIN supply_projections |-> DisplayedPoints(supply_projections[p])]
    /\ ops_projections' = DisplayedPoints(ops_projections)
    /\ UNCHANGED <<total_df, growth_rates, warnings, baseline, duration, scenarios,
                   baseline_ops_fte, args, projections, ops_duration, scenario,
                   scenario_df, dataVars>>

\* gap_analysis_df = format_projections(supply_projections, ops_projections)
FormatProjections ==
    /\ pc = "ops"
    /\ \E r \in {format_projections(supply_projections, ops_projections)} :
         /\ gap_df' = r.gap_df
         /\ error' = r.error
         /\ pc' = IF r.error = "none" THEN "gap" ELSE "failed"
    /\ UNCHANGED <<total_df, growth_rates, warnings, baseline, duration, scenarios,
                   supply_projections, baseline_ops_fte, ops_projections, args,
                   projections, ops_duration, scenario, scenario_df, dataVars>>

\* the scenario names main is called with
ScenarioArgs == {"baseline", "optimistic", "pessimistic", "Baseline", "worst"}

\* as ValidScenario, but any name is taken
ValidScenarioLenient(s) == TRUE

\* scenario in valid_scenarios
ValidScenario(s) == s \in {"baseline", "optimistic", "pessimistic"}

\* main(scenario) up to the end of the validation of its argument
MainEntry ==
    /\ pc = "start"
    /\ \E s \in ScenarioArgs :
         /\ scenario' = s
         /\ error' = IF ValidScenario(s) THEN error ELSE "ValueError"
         /\ pc' = IF ValidScenario(s) THEN "main" ELSE "failed"
    /\ UNCHANGED <<total_df, growth_rates, warnings, baseline, duration, scenarios,
                   supply_projections, baseline_ops_fte, ops_projections, args,
                   projections, ops_duration, gap_df, scenario_df, dataVars>>

\* the snapshot tables main is run on: two years of pharmacists
MainTables == {t \in TablesOver({100, 200}) : DOMAIN t["Pharmacist"] = {2018, 2025}}

MainCalculate == CalculateAnnualGrowthRatesAt("main", MainTables)

\* the rows of the scenario are kept, the charts are written, the rows returned
FilterAndVisualize ==
    /\ pc = "gap"
    /\ scenario_df' = SelectSeq(gap_df, LAMBDA row : row.scenario = scenario)
    /\ pc' = "done"
    /\ UNCHANGED <<total_df, growth_rates, warnings, error, baseline, duration,
                   scenarios, supply_projections, baseline_ops_fte, ops_projections,
                   args, projections, ops_duration, gap_df, scenario, dataVars>>

\* the number of records of the datasets served
MaxRecords == 15

\* maximum records per request
limit == 3

\* records[offset : offset + limit] of the server
Page(records, from, count) ==
    SubSeq(records, from + 1, IF from + count < Len(records) THEN from + count
                              ELSE Len(records))

\* as IsLastPage, but a full page ends the loop as well
IsLastPageOrFull(records) == Len(records) <= limit

\* len(records) < limit
IsLastPage(records) == Len(records) < limit

\* fetch_all_pharmacy_data is called: all_records = [], offset = 0
FetchCall ==
    /\ pc = "start"
    /\ \E n \in 0..MaxRecords : server_records' = [i \in 1..n |-> i]
    /\ all_records' = <<>>
    /\ offset' = 0
    /\ pc' = "loop"
    /\ UNCHANGED <<runVars, args, error, request, response, total_hours>>

\* urlopen of the request with the limit and the current offset
SendRequest ==
    /\ pc = "loop"
    /\ request' = [limit |-> limit, offset |-> offset]
    /\ pc' = "requested"
    /\ UNCHANGED <<runVars, args, error, server_records, all_records, offset,
                   response, total_hours>>

\* the server answers with status 200 and the page asked for
ServerAnswer ==
    /\ pc = "requested"
    /\ response' = [status |-> 200,
                    records |-> Page(server_records, request.offset, request.limit)]
    /\ request' = NoneValue
    /\ pc' = "answered"
    /\ UNCHANGED <<runVars, args, error, server_records, all_records, offset,
                   total_hours>>

\* the body of the loop once the response is there
HandleResponse ==
    /\ pc = "answered"
    /\ IF response.status = 200 /\ response.records # <<>>
       THEN /\ all_records' = all_records \o response.records
            /\ offset' = offset + Len(response.records)
            /\ pc' = IF IsLastPage(response.records) THEN "returned" ELSE "loop"
       ELSE /\ pc' = "returned"
            /\ UNCHANGED <<all_records, offset>>
    /\ response' = NoneValue
    /\ UNCHANGED <<runVars, args, error, server_records, request, total_hours>>

Next ==
    \/ CalculateRatesPipeline
    \/ ProjectWorkforceSupply
    \/ ProjectPharmacyOps
    \/ ProjectScenariosCall
    \/ CreateScenariosCall

Spec == Init /\ [][Next]_vars

NextGrowth == CalculateRatesAny

SpecGrowth == Init /\ [][NextGrowth]_vars

NextGap ==
    \/ ProjectWorkforceSupplyCall
    \/ ProjectPharmacyOpsCall
    \/ FormatProjections

SpecGap == Init /\ [][NextGap]_vars

\* the hours and minutes of the time ranges of the model
RangeHours == {0, 6, 9, 17, 22, 25}

RangeMinutes == {0, 30}

\* "HH:MM" of an hour and a minute
TimeText(h, m) ==
    <<DigitChars[(h \div 10) + 1], DigitChars[(h % 10) + 1], ":",
      DigitChars[(m \div 10) + 1], DigitChars[(m % 10) + 1]>>

\* "HH:MM-HH:MM"
RangeText(h1, m1, h2, m2) == TimeText(h1, m1) \o <<"-">> \o TimeText(h2, m2)

Text(str) == [missing |-> FALSE, text |-> str]

\* None, closed and empty texts, texts that do not parse, single ranges and
\* comma-separated ranges
TimeStrings ==
    {[missing |-> TRUE, text |-> <<>>]}
    \cup {Text(RangeText(h1, m1, h2, m2)) :
             h1 \in RangeHours, m1 \in RangeMinutes, h2 \in RangeHours,
             m2 \in RangeMinutes}
    \cup {Text(<<>>), Text(<<" ">>), Text(<<"C", "l", "o", "s", "e", "d">>),
          Text(<<" ", "C", "L", "O", "S", "E", "D", " ">>), Text(<<"N", "/", "A">>),
          Text(<<"n", "a">>), Text(<<"N", "o", "n", "e">>),
          Text(<<"a", "b", "c">>), Text(<<"0", "9", "0", "0", "-", "1", "7", "0", "0">>),
          Text(<<"9", ":", "0", "0", "-", "1", "7", ":", "0", "0">>),
          Text(<<"0", "9", ":", "0", "0", "-", "9", ":", "3", "0">>),
          Text(<<",">>),
          Text(RangeText(9, 0, 17, 0) \o <<" ", "e", "t", "c">>),
          Text(RangeText(9, 0, 12, 0) \o <<",">> \o RangeText(14, 0, 17, 0)),
          Text(<<" ">> \o RangeText(9, 0, 12, 0) \o <<",", " ">>
               \o RangeText(22, 0, 0, 30) \o <<" ">>),
          Text(RangeText(9, 0, 12, 0) \o <<",">> \o <<"c", "l", "o", "s", "e", "d">>),
          Text(RangeText(9, 0, 12, 0) \o <<",">>)}

\* a call of parse_time_string
ParseTimeStringCall ==
    /\ pc = "start"
    /\ \E time_string \in TimeStrings :
         /\ args' = [time_string |-> time_string]
         /\ total_hours' = parse_time_string(time_string)
    /\ pc' = "parsed"
    /\ UNCHANGED <<runVars, error, server_records, all_records, offset, request,
                   response>>

NextParse == ParseTimeStringCall

SpecParse == Init /\ [][NextParse]_vars

NextFetch ==
    \/ FetchCall
    \/ SendRequest
    \/ ServerAnswer
    \/ HandleResponse

\* the loop of fetch_all_pharmacy_data goes on until it breaks
SpecFetch == Init /\ [][NextFetch]_vars /\ WF_vars(NextFetch)

NextMain ==
    \/ MainEntry
    \/ MainCalculate
    \/ ProjectWorkforceSupply
    \/ ProjectPharmacyOps
    \/ FormatProjections
    \/ FilterAndVisualize

SpecMain == Init /\ [][NextMain]_vars

----------------------------------------------------------------------------
(* Properties                                                              *)

\* the canonical multipliers, in tenths
CanonicalScenarios ==
    [s \in {"baseline", "optimistic", "pessimistic"} |->
        CASE s = "baseline" -> 10 [] s = "optimistic" -> 12 [] s = "pessimistic" -> 8]

\* every series present in the state, with the base value it starts from and
\* the scenario-adjusted rate (in 0.001 %) it is expected to compound
SupplySeries ==
    {[points |-> supply_projections[p][s], base |-> baseline[p], dur |-> duration,
      scenario |-> s, entity |-> p,
      adjusted |-> growth_rates[p].annual_growth_rate_pct * CanonicalScenarios[s]] :
        p \in DOMAIN supply_projections, s \in DOMAIN CanonicalScenarios}

OpsSeries ==
    {[points |-> ops_projections[s], base |-> baseline_ops_fte, dur |-> ops_duration,
      scenario |-> s, entity |-> "ops",
      adjusted |-> OPS_GROWTH_RATE_PCT * CanonicalScenarios[s]] :
        s \in DOMAIN ops_projections}

CallSeries ==
    {[points |-> projections[s], base |-> args.baseline_value, dur |-> args.duration,
      scenario |-> s, entity |-> "call",
      adjusted |-> args.growth_rate_pct * CanonicalScenarios[s]] :
        s \in DOMAIN projections}

AllSeries == SupplySeries \cup OpsSeries \cup CallSeries

\* change is the 5-decimal value nearest to total * adjusted / 100 (ties to
\* even), stated on the exact product
IsRounded5Product(change, total, adjusted) ==
    LET c5 == Abs(change) \div 10
        twice == BigMulSmall(BigMulSmall(BigFromNat(Abs(total)), Abs(adjusted)), 2)
        up == BigCmp(BigMulSmall(BigFromNat(2 * c5 + 1), 1000000), twice)
        lo == IF c5 = 0 THEN -1
              ELSE BigCmp(BigMulSmall(BigFromNat(2 * c5 - 1), 1000000), twice)
    IN  /\ change % 10 = 0
        /\ change = 0 \/ Sign(change) = Sign(total) * Sign(adjusted)
        /\ up >= 0
        /\ lo <= 0
        /\ (up = 0 \/ lo = 0) => c5 % 2 = 0

\* x is the 5-decimal value nearest to y (ties to even)
IsRounded5(x, y) ==
    /\ x % 10 = 0
    /\ 2 * Abs(x - y) <= 10
    /\ 2 * Abs(x - y) = 10 => (Abs(x) \div 10) % 2 = 0

\* change = total * adjusted / 100 with no rounding at all
IsExactProduct(change, total, adjusted) ==
    /\ BigCmp(BigMulSmall(BigFromNat(Abs(change)), 100000),
              BigMulSmall(BigFromNat(Abs(total)), Abs(adjusted))) = 0
    /\ change = 0 \/ Sign(change) = Sign(total) * Sign(adjusted)

Totals(points) == [i \in 1..Len(points) |-> points[i].total]

\* C1: in every series, for 1 <= k <= duration, change_k is
\* round(total_{k-1} * rate / 100, 5) and total_k is round(total_{k-1} + change_k, 5),
\* rate being the scenario-adjusted rate; base 1000 at 5.0 % over 3 years gives
\* the totals 1000, 1050.0, 1102.5, 1157.625
C1_CompoundRecurrence ==
    /\ \A x \in AllSeries : \A k \in 1..x.dur :
          /\ IsRounded5Product(x.points[k + 1].change, x.points[k].total, x.adjusted)
          /\ IsRounded5(x.points[k + 1].total, x.points[k].total + x.points[k + 1].change)
    /\ (pc = "projected"
           /\ args = [baseline_value |-> 1000000000, growth_rate_pct |-> 500, duration |-> 3])
        => Totals(projections["baseline"])
             = <<1000000000, 1050000000, 1102500000, 1157625000>>

\* the call with base 1000 at 5 % over 3 years has returned
C1_Witness ==
    /\ pc = "projected"
    /\ args = [baseline_value |-> 1000000000, growth_rate_pct |-> 500, duration |-> 3]
    /\ projections["baseline"][4].total = 1157625000

\* C2: point 0 of every series has year START_PROJECTION_YEAR, the baseline
\* value itself as total (not grown, not rounded) and change 0
C2_AnchorPoint ==
    \A x \in AllSeries :
        /\ x.points[1].year = START_PROJECTION_YEAR
        /\ x.points[1].total = x.base
        /\ x.points[1].change = 0

\* a supply series that starts from a baseline with 6 decimals and has grown
C2_Witness ==
    /\ pc = "supply"
    /\ \E x \in SupplySeries :
          x.base % 10 # 0 /\ x.dur >= 1 /\ x.adjusted # 0 /\ x.points[1].total = x.base

\* C3 as stated: the year-1 change of every series is exactly
\* base_value * base_rate * multiplier / 100
C3_Year1ChangeExact ==
    \A x \in AllSeries :
        x.dur >= 1 => IsExactProduct(x.points[2].change, x.base, x.adjusted)

\* C3 amended: each scenario compounds base_rate * multiplier (10.0 % gives
\* 12.0 % and 8.0 %) and the year-1 change is base * scenario_rate / 100
\* rounded to 5 decimals, which is the exact product for a whole base value
C3_Year1ChangeRounded ==
    /\ \A x \in AllSeries :
          x.dur >= 1 =>
            /\ IsRounded5Product(x.points[2].change, x.base, x.adjusted)
            /\ x.base % 1000000 = 0
                  => IsExactProduct(x.points[2].change, x.base, x.adjusted)
    /\ \A x \in CallSeries :
          (x.dur >= 1 /\ args.growth_rate_pct = 1000 /\ x.base = 1000000000) =>
             x.points[2].change = (CASE x.scenario = "baseline" -> 100000000
                                     [] x.scenario = "optimistic" -> 120000000
                                     [] x.scenario = "pessimistic" -> 80000000)

\* a base of 100.000004 at 10 %: the optimistic series compounds 12 % and its
\* year-1 change 12.00000048 was rounded to 12.0
C3_Witness ==
    /\ pc = "projected"
    /\ args.baseline_value = 100000004 /\ args.growth_rate_pct = 1000
    /\ args.duration >= 1
    /\ projections["optimistic"][2].change = 12000000
    /\ ~IsExactProduct(projections["optimistic"][2].change, args.baseline_value, 12000)

\* C4: create_scenarios returns {baseline: 1.0, optimistic: 1.2,
\* pessimistic: 0.8} for a non-empty rate map, an empty map and None
C4_FixedScenarios ==
    pc \in {"scenarios", "supply", "ops"} => scenarios = CanonicalScenarios

\* create_scenarios was called with a non-empty rate map
C4_Witness ==
    /\ pc = "scenarios"
    /\ args.rates_dict # NoneValue
    /\ DOMAIN args.rates_dict # {}
    /\ scenarios = CanonicalScenarios

(* Endpoints of a profession's series as the growth-rate step uses them,   *)
(* read off the snapshot table of the state.                               *)
YearsOf(p) == DOMAIN total_df[p]

UsedBaselineYear(p) ==
    IF 2025 \in YearsOf(p) THEN 2025 ELSE CHOOSE y \in YearsOf(p) : \A z \in YearsOf(p) : z <= y

MinYear(p) == CHOOSE y \in YearsOf(p) : \A z \in YearsOf(p) : y <= z

MaxYear(p) == CHOOSE y \in YearsOf(p) : \A z \in YearsOf(p) : z <= y

BaselineTotal(p) == total_df[p][UsedBaselineYear(p)]

EarliestTotal(p) == total_df[p][MinYear(p)]

Calculated == pc \in {"rates", "supply", "ops"}

\* q (in 0.01 %) is exactly the rate that compounded n times takes e to b
ExactCAGR(q, b, e, n) == 10000 + q >= 0 /\ PowCmp(10000 + q, 10000, n, e, b) = 0

\* q (in 0.01 %) is the 2-decimal value nearest to the rate that compounded
\* n times takes e to b:  (1 + (q - 0.5)/10^4)^n <= b/e <= (1 + (q + 0.5)/10^4)^n
NearestCAGR(q, b, e, n) ==
    /\ PowCmp(20000 + 2 * q + 1, 20000, n, e, b) >= 0
    /\ 20000 + 2 * q - 1 >= 0 => PowCmp(20000 + 2 * q - 1, 20000, n, e, b) <= 0

\* C5 as stated: the rate project_workforce_supply compounds for a profession
\* is the unrounded CAGR of its series, never the 2-decimal value
C5_ProjectsUnroundedCAGR ==
    pc \in {"supply", "ops"} =>
      \A p \in DOMAIN supply_projections :
          ExactCAGR(SupplyRate(growth_rates, p), BaselineTotal(p), EarliestTotal(p),
                    UsedBaselineYear(p) - MinYear(p))

\* C6: the annual_growth_rate_pct of a record is the compound annual rate
\* from earliest_total to baseline_total over years_elapsed (to the 2 decimals
\* of the record), not the linear average; 100 -> 200 over 7 years is 10.41
C6_RateIsCompound ==
    Calculated =>
      \A p \in DOMAIN growth_rates :
          /\ NearestCAGR(growth_rates[p].annual_growth_rate_pct, BaselineTotal(p),
                         EarliestTotal(p), growth_rates[p].years_elapsed)
          /\ (BaselineTotal(p) = 200 /\ EarliestTotal(p) = 100
                 /\ growth_rates[p].years_elapsed = 7)
              => growth_rates[p].annual_growth_rate_pct = 1041

\* the record of a series 100 (2018) -> 200 (2025)
C6_Witness ==
    /\ pc = "rates"
    /\ "Pharmacist" \in DOMAIN growth_rates
    /\ YearsOf("Pharmacist") = {2018, 2025}
    /\ total_df["Pharmacist"][2018] = 100 /\ total_df["Pharmacist"][2025] = 200
    /\ growth_rates["Pharmacist"].annual_growth_rate_pct = 1041

\* C7 as stated: a record whose baseline_total is below its earliest_total
\* has a strictly negative annual_growth_rate_pct
C7_DeclineIsNegative ==
    Calculated =>
      \A p \in DOMAIN growth_rates :
          BaselineTotal(p) < EarliestTotal(p)
            => growth_rates[p].annual_growth_rate_pct < 0

\* C8: every record has years_elapsed = baseline year used - earliest year > 0,
\* and a profession whose baseline year used is its earliest year has no record
C8_YearsElapsed ==
    pc \in {"rates", "failed", "supply", "ops"} =>
      /\ \A p \in DOMAIN growth_rates :
            /\ growth_rates[p].years_elapsed = UsedBaselineYear(p) - MinYear(p)
            /\ growth_rates[p].years_elapsed > 0
      /\ \A p \in Professions :
            (YearsOf(p) # {} /\ UsedBaselineYear(p) = MinYear(p))
              => p \notin DOMAIN growth_rates

\* one profession skipped because 2025 is its earliest of two years, the other
\* with a record that spans 8 years up to its latest year
C8_Witness ==
    /\ pc = "rates"
    /\ YearsOf("Pharmacist") = {2025, 2026}
    /\ "Pharmacist" \notin DOMAIN growth_rates
    /\ "Pharmacy Technician" \in DOMAIN growth_rates
    /\ growth_rates["Pharmacy Technician"].years_elapsed = 8

WithoutProfession(p) == [total_df EXCEPT ![p] = EmptyMap]

\* a series from which a record can be computed
Usable(p) == Cardinality(YearsOf(p)) >= 2 /\ UsedBaselineYear(p) # MinYear(p)

\* C9: a profession with one distinct year is reported (InsufficientData) and
\* left out of the output, and the call goes on as if its rows were not there:
\* same outcome, same records for every other profession
C9_SingleYearSkipped ==
    pc \in {"rates", "failed"} =>
      \A p \in Professions :
          Cardinality(YearsOf(p)) = 1 =>
            /\ p \notin DOMAIN growth_rates
            /\ error = calculate_annual_growth_rates(WithoutProfession(p)).error
            /\ error = "none" =>
                  /\ Warning("InsufficientData", p) \in warnings
                  /\ growth_rates = calculate_annual_growth_rates(WithoutProfession(p)).data
                  /\ \A q \in Professions \ {p} : Usable(q) => q \in DOMAIN growth_rates

\* a single-year profession processed first, and a record for the other one
C9_Witness ==
    /\ pc = "rates"
    /\ Cardinality(YearsOf("Pharmacist")) = 1
    /\ Warning("InsufficientData", "Pharmacist") \in warnings
    /\ "Pharmacist" \notin DOMAIN growth_rates
    /\ "Pharmacy Technician" \in DOMAIN growth_rates

\* C10: a profession with at least two years and no row for BASELINE_YEAR is
\* given its latest year as baseline year: the call reports it with a warning,
\* and the record it returns for the profession runs from the earliest to the
\* latest year; a call that returns nothing failed on a zero earliest_total
C10_FallbackToLatestYear ==
    pc \in {"rates", "failed"} =>
      \A p \in Professions :
          (Cardinality(YearsOf(p)) >= 2 /\ BASELINE_YEAR \notin YearsOf(p)) =>
            /\ error = "none" =>
                  /\ Warning("BaselineYearNotFound", p) \in warnings
                  /\ p \in DOMAIN growth_rates
                  /\ growth_rates[p].years_elapsed = MaxYear(p) - MinYear(p)
                  /\ growth_rates[p].change_period
                        = total_df[p][MaxYear(p)] - total_df[p][MinYear(p)]
                  /\ NearestCAGR(growth_rates[p].annual_growth_rate_pct,
                                 total_df[p][MaxYear(p)], total_df[p][MinYear(p)],
                                 MaxYear(p) - MinYear(p))
            /\ error # "none" =>
                  /\ error = "ZeroDivisionError"
                  /\ \E q \in Professions : Usable(q) /\ EarliestTotal(q) = 0

\* a profession with rows for 2018 and 2026 only got a record over 8 years
C10_Witness ==
    /\ pc = "rates"
    /\ YearsOf("Pharmacist") = {2018, 2026}
    /\ Warning("BaselineYearNotFound", "Pharmacist") \in warnings
    /\ "Pharmacist" \in DOMAIN growth_rates
    /\ growth_rates["Pharmacist"].years_elapsed = 8

\* the warnings that report a profession as left out of the output
SkipWarnings(p) ==
    {Warning(k, p) : k \in {"InsufficientData", "OnlyOneYear", "ZeroEarliestTotal"}}

\* C11: when a profession whose series reaches the division has an
\* earliest_total of 0, the call fails with ZeroDivisionError: the caller gets
\* no growth-rate map, not even for the professions already computed, and
\* the profession is not skipped with a warning
C11_ZeroEarliestTotalFails ==
    pc \in {"rates", "failed"} =>
      \A p \in Professions :
          (Usable(p) /\ EarliestTotal(p) = 0) =>
            /\ pc = "failed"
            /\ error = "ZeroDivisionError"
            /\ growth_rates = EmptyMap
            /\ warnings \cap SkipWarnings(p) = {}

\* the first profession has a computable record (100 -> 200), the second a
\* zero earliest_total: the call failed and returned no record at all
C11_Witness ==
    /\ pc = "failed"
    /\ error = "ZeroDivisionError"
    /\ YearsOf("Pharmacist") = {2018, 2025}
    /\ total_df["Pharmacist"][2018] = 100 /\ total_df["Pharmacist"][2025] = 200
    /\ YearsOf("Pharmacy Technician") = {2018, 2025}
    /\ total_df["Pharmacy Technician"][2018] = 0
    /\ growth_rates = EmptyMap

\* format_projections has returned a gap table
GapReturned == pc \in {"gap", "done"}

\* C12: in every row of the gap table, gap = supply - ops for the supply and
\* the ops of that row
C12_GapIsSupplyMinusOps ==
    \A i \in 1..Len(gap_df) : gap_df[i].gap = gap_df[i].supply - gap_df[i].ops

\* a table with a row of supply 50, ops 110 and gap -60
C12_Witness ==
    /\ pc = "gap"
    /\ \E i \in 1..Len(gap_df) :
          gap_df[i].supply = 50 /\ gap_df[i].ops = 110 /\ gap_df[i].gap = -60

\* the (year, scenario) pairs of the supply series, of the ops series and of
\* the gap table
SupplyKeys ==
    {<<supply_projections[p][s][k].year, s>> :
        p \in DOMAIN supply_projections, s \in ScenarioNames, k \in 1..(duration + 1)}

OpsKeys ==
    {<<ops_projections[s][k].year, s>> : s \in ScenarioNames, k \in 1..(ops_duration + 1)}

GapKeys == {<<gap_df[i].year, gap_df[i].scenario>> : i \in 1..Len(gap_df)}

\* C13: the gap table has exactly one row for each (year, scenario) pair of
\* both the supply and the ops series and no other row; with equal durations
\* the pairs are {START_PROJECTION_YEAR + k : k in 0..duration} x the three
\* scenarios
C13_RowsAreCommonPairs ==
    GapReturned =>
      /\ GapKeys = SupplyKeys \cap OpsKeys
      /\ Len(gap_df) = Cardinality(GapKeys)
      /\ duration = ops_duration =>
            GapKeys = {START_PROJECTION_YEAR + k : k \in 0..duration} \X ScenarioNames

\* supply over 3 years and ops over 1 year joined into the 6 rows of the
\* years both have
C13_Witness ==
    /\ pc = "gap"
    /\ duration = 3 /\ ops_duration = 1
    /\ Len(gap_df) = 6
    /\ <<START_PROJECTION_YEAR + 1, "pessimistic">> \in GapKeys
    /\ <<START_PROJECTION_YEAR + 2, "baseline">> \notin GapKeys

\* C14 as stated: when the supply and the ops series do not have the same
\* (year, scenario) pairs, format_projections fails with MisalignedSeries and
\* returns no table
C14_MisalignedSeriesFails ==
    (pc \in {"gap", "failed", "done"} /\ DOMAIN supply_projections # {}
        /\ SupplyKeys # OpsKeys)
      => (pc = "failed" /\ error = "MisalignedSeries" /\ gap_df = <<>>)

RECURSIVE SumOverProfessions(_, _, _, _)
\* the sum over the professions P of f[p][s][k] rounded to an integer if
\* rounded, counted in 10^-6
SumOverProfessions(P, s, k, rounded) ==
    IF P = {} THEN 0
    ELSE LET p == CHOOSE q \in P : TRUE
             total == supply_projections[p][s][k].total
         IN  (IF rounded THEN IntRound(total) * 1000000 ELSE total)
             + SumOverProfessions(P \ {p}, s, k, rounded)

\* the supply of every row is the sum of the professions' totals
SupplyIsSum(rounded) ==
    GapReturned =>
      \A i \in 1..Len(gap_df) :
          gap_df[i].supply * 1000000
            = SumOverProfessions(DOMAIN supply_projections, gap_df[i].scenario,
                                 gap_df[i].year - START_PROJECTION_YEAR + 1, rounded)

RECURSIVE SumOfRoundedBaselines(_)
\* the baseline values of the professions P, each rounded to an integer, summed
SumOfRoundedBaselines(P) ==
    IF P = {} THEN 0
    ELSE LET p == CHOOSE q \in P : TRUE
         IN  IntRound(baseline[p]) + SumOfRoundedBaselines(P \ {p})

\* C15 as stated: the supply of every row is the sum over the projected
\* professions of the profession's total at that (year, scenario)
C15_SupplyIsSumOfTotals == SupplyIsSum(FALSE)

\* C15: the supply of every row is the sum over the projected professions of
\* the profession's total at that (year, scenario) rounded to an integer
\* (half to even); at year 0 of the baseline scenario it is the sum of the
\* rounded baseline values
C15_SupplyIsSumOfRoundedTotals ==
    /\ SupplyIsSum(TRUE)
    /\ GapReturned =>
          \A i \in 1..Len(gap_df) :
              (gap_df[i].year = START_PROJECTION_YEAR /\ gap_df[i].scenario = "baseline")
                => gap_df[i].supply = SumOfRoundedBaselines(DOMAIN supply_projections)

\* two professions with baselines 100.000004 and 429.073546: the supply of
\* year 0 is 100 + 429, and a later row sums two grown series
C15_Witness ==
    /\ pc = "gap"
    /\ DOMAIN supply_projections = Professions
    /\ baseline["Pharmacist"] = 100000004
    /\ Len(gap_df) >= 6
    /\ gap_df[1].supply = 529
    /\ gap_df[2].supply # gap_df[1].supply

\* C16: the rows of the gap table are in ascending order of (scenario, year):
\* of two rows the earlier has the smaller scenario name, or the same scenario
\* and the smaller year
C16_SortedByScenarioYear ==
    \A i, j \in 1..Len(gap_df) :
        i < j =>
          \/ ScenarioRank(gap_df[i].scenario) < ScenarioRank(gap_df[j].scenario)
          \/ /\ gap_df[i].scenario = gap_df[j].scenario
             /\ gap_df[i].year < gap_df[j].year

\* a table of three scenarios over two years
C16_Witness ==
    /\ pc = "gap"
    /\ Len(gap_df) = 6
    /\ gap_df[2].scenario = "baseline" /\ gap_df[2].year = START_PROJECTION_YEAR + 1
    /\ gap_df[3].scenario = "optimistic" /\ gap_df[3].year = START_PROJECTION_YEAR
    /\ gap_df[6].scenario = "pessimistic"

\* C17: a profession with a growth rate and no baseline has no series and a
\* warning, no error is raised, and every profession with a rate and a
\* baseline has a series of duration + 1 points under each of the three
\* scenarios
C17_MissingBaselineSkipped ==
    pc = "supply" =>
      /\ error = "none"
      /\ \A p \in DOMAIN growth_rates \ DOMAIN baseline :
            /\ p \notin DOMAIN supply_projections
            /\ Warning("NoBaseline", p) \in warnings
      /\ \A p \in DOMAIN growth_rates \cap DOMAIN baseline :
            /\ p \in DOMAIN supply_projections
            /\ DOMAIN supply_projections[p] = ScenarioNames
            /\ \A s \in ScenarioNames : Len(supply_projections[p][s]) = duration + 1

\* rates for both professions, a baseline for the technicians only
C17_Witness ==
    /\ pc = "supply"
    /\ DOMAIN growth_rates = Professions
    /\ DOMAIN baseline = {"Pharmacy Technician"}
    /\ DOMAIN supply_projections = {"Pharmacy Technician"}
    /\ Warning("NoBaseline", "Pharmacist") \in warnings

\* C18: main called with a name that is not one of the three scenarios fails
\* with ValueError and nothing has been loaded, projected, formatted or written
C18_UnknownScenarioRejected ==
    (scenario # "none" /\ scenario \notin ScenarioNames) =>
      /\ pc = "failed"
      /\ error = "ValueError"
      /\ total_df = EmptyMap /\ growth_rates = EmptyMap /\ baseline = EmptyMap
      /\ supply_projections = EmptyMap /\ ops_projections = EmptyMap
      /\ gap_df = <<>> /\ scenario_df = <<>>

\* main("Baseline") has failed
C18_Witness ==
    /\ scenario = "Baseline"
    /\ pc = "failed"
    /\ error = "ValueError"

\* C19: the ops series are those of the three scenarios, each from the
\* operations baseline over the duration, compounded at OPS_GROWTH_RATE_PCT
\* times the scenario multiplier: nothing of the snapshots, the profession
\* growth rates or the supply baselines enters them
C19_OpsAtFixedRate ==
    pc = "ops" =>
      /\ DOMAIN ops_projections = ScenarioNames
      /\ \A s \in ScenarioNames :
            /\ Len(ops_projections[s]) = ops_duration + 1
            /\ ops_projections[s][1].total = baseline_ops_fte
            /\ \A k \in 1..ops_duration :
                  /\ IsRounded5Product(ops_projections[s][k + 1].change,
                                       ops_projections[s][k].total,
                                       OPS_GROWTH_RATE_PCT * CanonicalScenarios[s])
                  /\ IsRounded5(ops_projections[s][k + 1].total,
                                ops_projections[s][k].total
                                  + ops_projections[s][k + 1].change)

\* ops projected over 3 years after a supply projection at 10.41 %
C19_Witness ==
    /\ pc = "ops"
    /\ ops_duration = 3
    /\ "Pharmacist" \in DOMAIN growth_rates
    /\ growth_rates["Pharmacist"].annual_growth_rate_pct = 1041
    /\ ops_projections["optimistic"][4].total > baseline_ops_fte

\* the message of the error names what triggered it: ValueError carries the
\* scenario name (main.py:42); "division by zero" and "list index out of
\* range" name no profession, scenario or year
NamesTrigger(e) == e = "ValueError"

\* the gap table has one row for every year of the projection and scenario
CompleteGapTable ==
    /\ GapKeys = {START_PROJECTION_YEAR + k : k \in 0..duration} \X ScenarioNames
    /\ Len(gap_df) = Cardinality(GapKeys)
    /\ \A i \in 1..Len(gap_df) : gap_df[i].gap = gap_df[i].supply - gap_df[i].ops

\* C21 as stated: a run that has ended has returned a complete gap table or
\* failed with an error that names the profession, scenario or year that
\* triggered it; so does a run in which every profession was skipped
C21_TableOrSpecificError ==
    pc \in {"done", "failed"} =>
      \/ pc = "done" /\ CompleteGapTable
      \/ pc = "failed" /\ NamesTrigger(error)

\* the growth-rate records with every field but annual_growth_rate_pct replaced
ScrubbedRates ==
    [p \in DOMAIN growth_rates |->
        [annual_growth_rate_pct |-> growth_rates[p].annual_growth_rate_pct,
         annual_change_estimate |-> 0, change_period |-> 0, years_elapsed |-> 1]]

\* C22: the projections are those of records that differ from the ones given
\* in annual_change_estimate, change_period and years_elapsed only: these
\* fields influence no projected point
C22_OnlyRateIsProjected ==
    pc = "supply" =>
      supply_projections = project_workforce_supply(baseline, ScrubbedRates, duration)

\* a projection from a record with change_period 100 over 7 years
C22_Witness ==
    /\ pc = "supply"
    /\ "Pharmacist" \in DOMAIN supply_projections
    /\ growth_rates["Pharmacist"].change_period = 100
    /\ growth_rates["Pharmacist"].years_elapsed = 7
    /\ growth_rates["Pharmacist"].annual_change_estimate = 143
    /\ duration = 3

\* C23: every series has duration + 1 points, the k-th (k = 0..duration) of
\* year START_PROJECTION_YEAR + k and of the scenario of the series; a
\* duration of 0 gives the anchor point alone
C23_OnePointPerYear ==
    \A x \in AllSeries :
        /\ Len(x.points) = x.dur + 1
        /\ \A k \in 0..x.dur :
              /\ x.points[k + 1].year = START_PROJECTION_YEAR + k
              /\ x.points[k + 1].scenario = x.scenario
        /\ x.dur = 0 => x.points = <<AnchorPoint(x.base, x.scenario)>>

\* a direct call over 3 years, and its last pessimistic point
C23_Witness ==
    /\ pc = "projected"
    /\ args.duration = 3
    /\ Len(projections["pessimistic"]) = 4
    /\ projections["pessimistic"][4].year = START_PROJECTION_YEAR + 3
    /\ projections["pessimistic"][4].scenario = "pessimistic"

\* what a step of the run leaves as it was given
StepKeepsInputs ==
    /\ (pc = "main" /\ pc' = "rates")
          => growth_rates' = calculate_annual_growth_rates(total_df').data
    /\ pc = "rates"
          => /\ total_df' = total_df
             /\ growth_rates' = growth_rates
             /\ supply_projections'
                   = project_workforce_supply(baseline', growth_rates', duration')
    /\ pc = "supply"
          => /\ total_df' = total_df /\ growth_rates' = growth_rates
             /\ baseline' = baseline /\ supply_projections' = supply_projections
    /\ pc \in {"ops", "gap"}
          => /\ total_df' = total_df /\ growth_rates' = growth_rates
             /\ baseline' = baseline /\ supply_projections' = supply_projections
             /\ baseline_ops_fte' = baseline_ops_fte
             /\ ops_projections' = ops_projections
    /\ pc = "gap" => gap_df' = gap_df

\* C24: no step changes what it was given: the snapshot table the records
\* were computed from, the baseline map and the growth-rate map after the
\* supply projection, the projections (5-decimal totals and changes) and the
\* ops series after format_projections
C24_InputsNotMutated == [][StepKeepsInputs]_vars

\* a returned table that shows 100 pharmacists of a baseline of 100.000004,
\* which the projection still holds
C24_Witness ==
    /\ pc = "done"
    /\ DOMAIN supply_projections = {"Pharmacist"}
    /\ supply_projections["Pharmacist"]["baseline"][1].total = 100000004
    /\ gap_df[1].supply = 100
    /\ ops_projections["baseline"][1].total = 110343532

\* what holds of the requests and of the records collected all along
FetchInvariant ==
    /\ pc = "requested" => (request.offset = Len(all_records) /\ request.limit = limit)
    /\ pc \in {"loop", "requested", "answered", "returned"} =>
          /\ offset = Len(all_records)
          /\ Len(all_records) <= Len(server_records)
          /\ all_records = SubSeq(server_records, 1, Len(all_records))
    /\ pc = "returned" => all_records = server_records

\* C25: against a server that answers every request with status 200 and
\* records[offset : offset + limit], fetch_all_pharmacy_data returns for
\* every number of records, and returns every record once in server order;
\* every request has the number of records collected so far as offset
C25_FetchReturnsAllRecords == [](FetchInvariant) /\ <>(pc = "returned")

\* a dataset of exactly two full pages has been returned
C25_Witness ==
    /\ pc = "returned"
    /\ Len(server_records) = 2 * limit
    /\ all_records = server_records
    /\ offset = 2 * limit

\* the minutes from h1:m1 to h2:m2, through midnight when h2:m2 is earlier
MinutesBetween(h1, m1, h2, m2) ==
    IF h2 * 60 + m2 < h1 * 60 + m1
    THEN h2 * 60 + m2 + 24 * 60 - (h1 * 60 + m1)
    ELSE h2 * 60 + m2 - (h1 * 60 + m1)

\* the texts of the model that are closed, empty or do not parse
NoHoursTexts ==
    {<<>>, <<" ">>, <<"C", "l", "o", "s", "e", "d">>,
     <<" ", "C", "L", "O", "S", "E", "D", " ">>, <<"N", "/", "A">>, <<"n", "a">>,
     <<"N", "o", "n", "e">>, <<"a", "b", "c">>,
     <<"0", "9", "0", "0", "-", "1", "7", "0", "0">>, <<",">>}

\* the value of every input is the one described: the minutes of a single
\* range, the sum over comma-separated ranges, 0 for the rest
ParsedAsDescribed ==
    pc = "parsed" =>
      /\ \A h1 \in RangeHours, m1 \in RangeMinutes, h2 \in RangeHours, m2 \in RangeMinutes :
            args.time_string = Text(RangeText(h1, m1, h2, m2))
              => total_hours = MinutesBetween(h1, m1, h2, m2)
      /\ args.time_string = Text(RangeText(22, 0, 6, 0)) => total_hours = 8 * 60
      /\ args.time_string
            = Text(RangeText(9, 0, 12, 0) \o <<",">> \o RangeText(14, 0, 17, 0))
          => total_hours = 6 * 60
      /\ (args.time_string.missing \/ args.time_string.text \in NoHoursTexts)
          => total_hours = 0

\* C26 as stated: parse_time_string returns the hours of a single range, with
\* 24 hours added when the end is earlier than the start, the sum of the hours
\* of comma-separated ranges, 0 for closed, empty, missing or unparseable
\* input, and so never a negative value
C26_HoursNeverNegative ==
    /\ ParsedAsDescribed
    /\ pc = "parsed" => total_hours >= 0

\* the three scenario series of every entity projected, with its base rate
\* (in 0.01 %), its base value and its duration
EntityProjections ==
    {[series |-> supply_projections[p],
      rate |-> growth_rates[p].annual_growth_rate_pct,
      base |-> baseline[p], dur |-> duration] : p \in DOMAIN supply_projections}
    \cup {[series |-> ops_projections, rate |-> OPS_GROWTH_RATE_PCT,
           base |-> baseline_ops_fte, dur |-> ops_duration] :
              x \in {y \in {1} : DOMAIN ops_projections # {}}}
    \cup {[series |-> projections, rate |-> args.growth_rate_pct,
           base |-> args.baseline_value, dur |-> args.duration] :
              x \in {y \in {1} : DOMAIN projections # {}}}

\* optimistic >= baseline >= pessimistic at year k
Ascending(e, k) ==
    /\ e.series["optimistic"][k + 1].total >= e.series["baseline"][k + 1].total
    /\ e.series["baseline"][k + 1].total >= e.series["pessimistic"][k + 1].total

\* optimistic <= baseline <= pessimistic at year k
Descending(e, k) ==
    /\ e.series["optimistic"][k + 1].total <= e.series["baseline"][k + 1].total
    /\ e.series["baseline"][k + 1].total <= e.series["pessimistic"][k + 1].total

RECURSIVE SumOfChanges(_, _)
\* change_1 + ... + change_k of a series
SumOfChanges(points, k) ==
    IF k = 0 THEN 0 ELSE points[k + 1].change + SumOfChanges(points, k - 1)

====
